---- MODULE Spec2Model ----
(***************************************************************************)
(* The quiz engine of bot.py: the per-user session (user_data["session"]), *)
(* the per-question timer job (user_data["timer_job"]), the update handler *)
(* on_callback / cmd_start and the job callback timeout_question.          *)
(*                                                                         *)
(* Scheduling.  Everything runs on one asyncio event loop, so code between *)
(* two awaits is atomic.  The Application is built with the defaults       *)
(* (bot.py:512), so updates are processed one after the other: one update  *)
(* handler is in flight at a time.  Job callbacks run as their own tasks   *)
(* and interleave with the update handler, and with each other, at every   *)
(* await.  One action of this module is one such atomic piece of code.     *)
(*                                                                         *)
(* Python values are kept: list indices, i, qid, correct_index and the     *)
(* answer index idx are 0-based; a Python list l is a sequence, l[k] is    *)
(* At(l, k).  None is the number 0 for references (session and job ids     *)
(* start at 1).                                                            *)
(*                                                                         *)
(* Objects are kept in two lists, sessions and jobs, and referred to by     *)
(* their position.  Objects no code can read again are dropped after every *)
(* step and the references renumbered (Store):                             *)
(*  - a session dict that has left user_data["session"].  It never comes   *)
(*    back (start_session makes a new dict), and the coroutines that still *)
(*    hold it in a local variable only do session["i"] += 1 on it, every   *)
(*    read after an await going through user_data again.  Their reference  *)
(*    becomes Detached and the increment has nothing to change;            *)
(*  - a job that was removed or whose callback has returned.               *)
(*    user_data["timer_job"] still naming such a job reads as None: all    *)
(*    the code does with it is schedule_removal(), which changes nothing   *)
(*    then.                                                                *)
(* The title of a session only feeds the header text of the question       *)
(* message and is not kept.                                                *)
(***************************************************************************)
EXTENDS Integers, Sequences, FiniteSets, TLC

\* ------------------------------------------------------------------ bounds
\* Number of updates (button presses, /start) the user sends.
MaxEvents == 3
\* Longest pool handed to pick_random / random.sample on its own, and the
\* largest sample size tried besides FINAL_N.
MaxPool == 4
MaxPick == 3

\* ------------------------------------------------------- program constants
FINAL_N == 20
\* len("ABCDEFGHIJKLMNOPQRSTUVWXYZ")
NLetters == 26

None == 0
Detached == -1

\* ---------------------------------------------------------- question data
\* Options of the longest question: one more than there are letters.
ManyOptions == NLetters + 1

\* The questions load_json_block accepted (non-empty text, >= 2 options,
\* 0 <= correct_index < len(options)).  Q2 has two options with the same
\* text, the correct one being the later of the two.  Q3 has ManyOptions
\* options, the correct one the last, the others alike.
Q1 == [q |-> "q1", options |-> <<"a", "b">>, correct_index |-> 0]
Q2 == [q |-> "q2", options |-> <<"c", "c">>, correct_index |-> 1]
Q3 == [q |-> "q3",
       options |-> [k \in 1..ManyOptions |-> IF k = ManyOptions THEN "z" ELSE "y"],
       correct_index |-> ManyOptions - 1]

\* MAIN_BLOCKS: key -> files.
MAIN_BLOCKS ==
  << [key |-> "b1", files |-> <<"block1_audit.json">>],
     [key |-> "b2", files |-> <<"block2_1_constitution.json",
                                "block2_2_civil_service.json",
                                "block2_3_mku.json",
                                "block2_4_corruption.json">>],
     [key |-> "b3", files |-> <<"block3_value.json">>],
     [key |-> "b4", files |-> <<"block4_origin.json">>],
     [key |-> "b5", files |-> <<"block5_payments.json">>] >>

\* blocks_cache as load_all_blocks left it: the files found in the data
\* directory, those MAIN_BLOCKS does not name included.  Three files hold
\* one question each, one holds none (every item was skipped); the other
\* files of MAIN_BLOCKS are absent.
blocks_cache ==
  [fn \in {"block1_audit.json", "block2_1_constitution.json",
           "block2_2_civil_service.json", "extra.json"} |->
     CASE fn = "block1_audit.json" -> <<Q1>>
       [] fn = "block2_1_constitution.json" -> <<Q2>>
       [] fn = "extra.json" -> <<Q3>>
       [] OTHER -> <<>>]

\* ---------------------------------------------------------- list helpers
At(l, k) == l[k + 1]

Range(f) == {f[x] : x \in DOMAIN f}

\* Orders that may take a position more than once
Orders_Repeating(n, k) == [1..k -> 0..(n - 1)]

\* The orders random.shuffle / random.sample can produce: the injective
\* choices of k positions of a list of n elements (0-based positions).
Orders(n, k) ==
  {o \in [1..k -> 0..(n - 1)] : \A a, b \in 1..k : a # b => o[a] # o[b]}

\* random.sample(population, k)
random_sample(population, k) ==
  {[j \in 1..k |-> At(population, o[j])] : o \in Orders(Len(population), k)}

\* r with x put in at place p
Insert(r, p, x) == SubSeq(r, 1, p - 1) \o <<x>> \o SubSeq(r, p, Len(r))

\* The orders of the first n elements of l.
RECURSIVE shuffled(_, _)
shuffled(l, n) ==
  IF n = 0 THEN {<<>>}
  ELSE {Insert(r, p, l[n]) : r \in shuffled(l, n - 1), p \in 1..n}

\* random.shuffle(l): the lists it can leave, which are the orders of the
\* elements of l (equal elements give equal lists).
random_shuffle(l) == UNION {shuffled(list, Len(list)) : list \in {l}}

\* list.index(x): the first position holding x
ListIndex(l, x) == CHOOSE k \in 0..(Len(l) - 1) :
                     /\ At(l, k) = x
                     /\ \A m \in 0..(k - 1) : At(l, m) # x

pick_random(questions, n) ==
  IF n >= Len(questions)
    THEN random_sample(questions, Len(questions))
    ELSE random_sample(questions, n)

RECURSIVE merge_from(_, _)
merge_from(files, k) ==
  IF k > Len(files) THEN <<>>
  ELSE (IF files[k] \in DOMAIN blocks_cache THEN blocks_cache[files[k]] ELSE <<>>)
         \o merge_from(files, k + 1)

merge_questions(files) == merge_from(files, 1)

BlockKeys == {MAIN_BLOCKS[k].key : k \in DOMAIN MAIN_BLOCKS}

BlockOf(block_key) == CHOOSE k \in DOMAIN MAIN_BLOCKS : MAIN_BLOCKS[k].key = block_key

\* build_test_questions: the set of (title, questions) it can return.  The
\* title is kept as the pair (block or file, mode); a block_key or subfile of
\* None is the empty string, which `if subfile:` treats alike.
build_test_questions(mode, block_key, subfile) ==
  IF subfile # ""
    THEN LET base == blocks_cache[subfile] IN
         IF mode = "final"
           THEN {[title |-> <<subfile, "final">>, questions |-> qs] :
                   qs \in pick_random(base, FINAL_N)}
           ELSE {[title |-> <<subfile, "full">>, questions |-> qs] :
                   qs \in random_sample(base, Len(base))}
    ELSE IF block_key \notin BlockKeys
      THEN {[title |-> <<>>, questions |-> <<>>]}
      ELSE LET pool == merge_questions(MAIN_BLOCKS[BlockOf(block_key)].files) IN
           IF mode = "final"
             THEN {[title |-> <<block_key, "final">>, questions |-> qs] :
                     qs \in pick_random(pool, FINAL_N)}
             ELSE {[title |-> <<block_key, "full">>, questions |-> qs] :
                     qs \in random_sample(pool, Len(pool))}

\* global_final: pick_random of every main block, concatenated, shuffled.
RECURSIVE global_pools(_)
global_pools(k) ==
  IF k = 0 THEN {<<>>}
  ELSE {p \o s : p \in global_pools(k - 1),
                 s \in pick_random(merge_questions(MAIN_BLOCKS[k].files), FINAL_N)}

global_final_questions ==
  UNION {random_sample(p, Len(p)) : p \in global_pools(Len(MAIN_BLOCKS))}

RECURSIVE Pow2(_)
Pow2(k) == IF k = 0 THEN 1 ELSE 2 * Pow2(k - 1)

\* The binary exponent L of the float m / 20, m >= 1:
\* 2^L <= m / 20 < 2^(L + 1).
RECURSIVE FloatExp(_)
FloatExp(m) ==
  IF m >= 40 THEN FloatExp(m \div 2) + 1
  ELSE IF m < 20 THEN FloatExp(2 * m) - 1
  ELSE 0

\* The float quotient 100.0 * correct / total lies above the exact m / 20
\* (m odd, not a multiple of 5): the 53-bit significand is m * 2^(50 - L) / 5
\* rounded to the nearest integer, and 2^4 = 1 mod 5.
FloatAbove(m) == ((m % 5) * Pow2((50 - FloatExp(m)) % 4)) % 5 >= 3

\* round(100.0 * correct / total, 1) if total else 0.0, in tenths of a
\* percent.  round() rounds the float it is given: a quotient that is a tie
\* x.x5 is a float only when it is a multiple of 1/4 (then the tie goes to
\* the even tenth); otherwise the float lies just above or below the tie.
Pct(correct, total) ==
  IF total = 0 THEN 0
  ELSE LET x == 1000 * correct
           q == x \div total
           r == x % total
           m == 2 * q + 1
       IN IF 2 * r > total THEN q + 1
          ELSE IF 2 * r < total THEN q
          ELSE IF m % 5 = 0 THEN (IF q % 2 = 0 THEN q ELSE q + 1)
          ELSE IF FloatAbove(m) THEN q + 1 ELSE q

\* ------------------------------------------------------------------ state
VARIABLES
  user_data,   \* context.user_data: [session, timer_job], references or None
  sessions,    \* the session dicts created by start_session
  jobs,        \* the jobs scheduled by job_queue.run_once
  hpc,         \* the await the update handler in flight is suspended at, or "idle"
  hmsg,        \* the message that await is sending
  hsession,    \* the local variable `session` of on_callback's ans branch
  budget,      \* updates the user may still send
  buttons,     \* history: the answer buttons sent to the chat so far
  call         \* a call of the question selection on its own: arguments, result

vars == <<user_data, sessions, jobs, hpc, hmsg, hsession, budget, buttons, call>>

\* No selection is called on its own while the bot runs.
NoCall == [fn |-> "none", pool |-> <<>>, n |-> 0, state |-> "none", result |-> <<>>]

\* query.data, split at "|": the command, its block key or file, its mode,
\* and for "ans" the numbers qid and idx.
Data(cmd, key, mode, qid, idx) ==
  [cmd |-> cmd, key |-> key, mode |-> mode, qid |-> qid, idx |-> idx]

\* session.get("current") or {} ; .get("shuffled_opts") or [] ; .get("correct_index", 0)
CurOpts(s) == IF s.current = <<>> THEN <<>> ELSE s.current[1].shuffled_opts
CurCi(s) == IF s.current = <<>> THEN 0 ELSE s.current[1].correct_index

\* start_session.  Besides the dict's keys a session carries its history:
\* shown, the (qid, i) of every question presented from it; passed, the
\* events that passed the fence since its last presentation (a timeout or an
\* answer, the qid it carried, an answer's index); credits, the (qid, i) at which correct was
\* incremented; summaries, the (correct, total) of every score summary sent
\* for it; earlier, the answer buttons in the chat when it was started, which
\* are those of the questions of earlier sessions.
NewSession(questions) ==
  [questions |-> questions, i |-> 0, correct |-> 0, qid |-> 0, current |-> <<>>,
   shown |-> <<>>, passed |-> <<>>, credits |-> <<>>, summaries |-> <<>>,
   earlier |-> buttons]

\* The fence was passed by the event e.
Passed(s, e) == [s EXCEPT !.passed = Append(s.passed, e)]

\* The number of members of S up to k: the position of k once the others
\* are dropped.
Rank(S, k) == IF k \in S THEN Cardinality({m \in S : m <= k}) ELSE None

\* The k-th member of S.
Nth(S, k) == CHOOSE m \in S : Cardinality({x \in S : x <= m}) = k

\* The step's result: user_data ud, sessions ss, jobs js and the handler's
\* local session hs, with the jobs that are gone and the sessions that have
\* left user_data dropped.
Store(ud, ss, js, hs) ==
  LET liveJ == {k \in DOMAIN js : js[k].state # "gone"}
      Ref(k) == IF k = None THEN None
                ELSE IF k = ud.session THEN 1
                ELSE Detached
  IN /\ sessions' = IF ud.session = None THEN <<>> ELSE <<ss[ud.session]>>
     /\ jobs' = [r \in 1..Cardinality(liveJ) |->
                   [js[Nth(liveJ, r)] EXCEPT !.session = Ref(@)]]
     /\ user_data' = [session |-> Ref(ud.session),
                      timer_job |-> Rank(liveJ, ud.timer_job)]
     /\ hsession' = Ref(hs)
     /\ call' = call

\* A job's callback returns.
Gone(js, j) == [js EXCEPT ![j].state = "gone"]

\* A removal that leaves the job on the queue
schedule_removal_Kept(js, j) == js

\* job.schedule_removal(): a job that has not fired is taken off the queue;
\* for one that has fired the call changes nothing.
schedule_removal(js, j) ==
  IF js[j].state = "scheduled" THEN Gone(js, j) ELSE js

\* session_cancel_timer that leaves the job on the queue
cancel_jobs_Forgotten(ud, js) == js

\* session_cancel_timer, on the values ud (user_data) and js (jobs)
cancel_jobs(ud, js) ==
  IF ud.timer_job # None THEN schedule_removal(js, ud.timer_job) ELSE js

cancel_udata(ud) == [ud EXCEPT !.timer_job = None]

\* user_data.pop("session", None)
pop_session(ud) == [ud EXCEPT !.session = None]

\* job_queue.run_once(timeout_question, data = {..., "qid": qid})
run_once(js, qid) == Append(js, [qid |-> qid, state |-> "scheduled", session |-> None])

\* What a function that raised IndexError gives.
IndexError == "IndexError"

\* letters[i] for i in range(n) raises IndexError: n exceeds the 26 letters.
TooManyLetters(n) == n > NLetters

\* fmt_options_with_letters(opts): the lines (letter, option), the letter as
\* its place in the alphabet
fmt_options_with_letters(opts) ==
  IF TooManyLetters(Len(opts)) THEN IndexError
  ELSE [k \in 1..Len(opts) |-> <<k - 1, opts[k]>>]

\* build_answer_keyboard(n, qid): the callback data of the answer buttons
build_answer_keyboard(n, qid) ==
  IF TooManyLetters(n) THEN IndexError
  ELSE {Data("ans", "", "", qid, i) : i \in 0..(n - 1)}

Summary(s) == [correct |-> s.correct, total |-> Len(s.questions),
               pct |-> Pct(s.correct, Len(s.questions))]

\* The shuffles of question q.  send_question shuffles the texts and looks
\* the correct text up (list.index, the first match).
ShuffleByText(q) ==
  {[shuffled_opts |-> opts, correct_index |-> ListIndex(opts, correct_text)] :
     opts \in random_shuffle(q.options),
     correct_text \in {At(q.options, q.correct_index)}}

\* The positions send_question_direct shuffles, each with all that is read
\* of it: the text it holds and whether it is q.correct_index.  (Positions
\* alike in both give the same shuffled_opts and correct_index whichever
\* way round they come.)
Positions(q) ==
  [k \in 1..Len(q.options) |->
     [text |-> q.options[k], correct |-> (k - 1 = q.correct_index)]]

\* A shuffle that keeps the unshuffled correct_index
ShuffleByOrder_Unmapped(q) ==
  {[shuffled_opts |-> [k \in 1..Len(order) |-> order[k].text],
    correct_index |-> q.correct_index] :
     order \in random_shuffle(Positions(q))}

\* send_question_direct shuffles the positions and looks the correct
\* position up.
ShuffleByOrder(q) ==
  {[shuffled_opts |-> [k \in 1..Len(order) |-> order[k].text],
    correct_index |-> ListIndex(order, correct)] :
     order \in random_shuffle(Positions(q)),
     correct \in {At(Positions(q), q.correct_index)}}

\* A presentation that leaves session["qid"] as it is
Present_SameQid(s, cur) ==
  [s EXCEPT !.current = <<cur>>,
            !.shown = Append(s.shown, [qid |-> s.qid, i |-> s.i]),
            !.passed = <<>>]

\* The session dict when the message of the shuffle cur could not be
\* built: session["current"] and session["qid"] are set, nothing is sent.
Unsent(s, cur) == [s EXCEPT !.current = <<cur>>, !.qid = s.qid + 1]

\* The session dict after a presentation with the shuffle cur:
\* session["current"] = ..., session["qid"] += 1.
Present(s, cur) ==
  [s EXCEPT !.current = <<cur>>,
            !.qid = s.qid + 1,
            !.shown = Append(s.shown, [qid |-> s.qid + 1, i |-> s.i]),
            !.passed = <<>>]

\* session["i"] += 1, through the local variable ref
Advanced(ss, ref) ==
  IF ref \in DOMAIN ss THEN [ss EXCEPT ![ref].i = @ + 1] ELSE ss

\* session["correct"] += 1
Credited(s) ==
  [s EXCEPT !.correct = s.correct + 1,
            !.credits = Append(s.credits, [qid |-> s.qid, i |-> s.i])]

\* if idx == ci
IsCorrect(idx, ci) == idx = ci

\* letters[idx] raises IndexError (a negative idx counts from the end)
LetterRaises(idx) == idx >= NLetters \/ idx < -NLetters

\* A fence that lets every event pass
Fence_Open(s, qid) == TRUE

\* The fence: the event is for the question on display.
Fence(s, qid) == s.qid = qid

\* ------------------------------------------------------------ the engine
\* finish_session, from the values ud, ss, js; suspends at the summary send.
finish_session(ud, ss, js) ==
  /\ buttons' = buttons
  /\ IF ud.session = None
       THEN /\ hpc' = "idle"
            /\ hmsg' = "none"
            /\ Store(cancel_udata(ud), ss, cancel_jobs(ud, js), None)
       ELSE /\ hpc' = "finish_send"
            /\ hmsg' = "summary"
            /\ Store(cancel_udata(ud),
                     [ss EXCEPT ![ud.session].summaries = Append(@, Summary(ss[ud.session]))],
                     cancel_jobs(ud, js), None)

\* send_question, from the values ud, ss, js; suspends at the question send.
\* For a question of more than 26 options fmt_options_with_letters raises
\* IndexError after the timer is cancelled and current and qid are set, and
\* before run_once: the handler ends there.
send_question(ud, ss, js) ==
  IF ud.session = None
    THEN /\ hpc' = "idle"
         /\ hmsg' = "none"
         /\ buttons' = buttons
         /\ Store(ud, ss, js, None)
    ELSE LET sid == ud.session
             s == ss[sid]
         IN IF s.i >= Len(s.questions)
              THEN finish_session(ud, ss, js)
              ELSE \E cur \in ShuffleByText(At(s.questions, s.i)) :
                     IF TooManyLetters(Len(cur.shuffled_opts))
                       THEN /\ hpc' = "idle"
                            /\ hmsg' = "none"
                            /\ buttons' = buttons
                            /\ Store(cancel_udata(ud),
                                     [ss EXCEPT ![sid] = Unsent(s, cur)],
                                     cancel_jobs(ud, js),
                                     None)
                       ELSE /\ hpc' = "last_send"
                            /\ hmsg' = "question"
                            /\ buttons' = buttons \cup
                                            build_answer_keyboard(Len(cur.shuffled_opts), s.qid + 1)
                            /\ Store([ud EXCEPT !.timer_job = Len(js) + 1],
                                     [ss EXCEPT ![sid] = Present(s, cur)],
                                     run_once(cancel_jobs(ud, js), s.qid + 1),
                                     None)

\* send_question_direct, called by job j.  It suspends at the summary send;
\* after the question send it only returns.  A question of more than 26
\* options ends the callback as it ends send_question.
send_question_direct(j) ==
  /\ UNCHANGED <<hpc, hmsg, budget>>
  /\ IF user_data.session = None
       THEN /\ buttons' = buttons
            /\ Store(user_data, sessions, Gone(jobs, j), hsession)
       ELSE LET sid == user_data.session
                s == sessions[sid]
            IN IF s.i >= Len(s.questions)
                 THEN /\ buttons' = buttons
                      /\ Store(user_data,
                               [sessions EXCEPT ![sid].summaries = Append(@, Summary(s))],
                               [jobs EXCEPT ![j].state = "summary_send"],
                               hsession)
                 ELSE \E cur \in ShuffleByOrder(At(s.questions, s.i)) :
                        IF TooManyLetters(Len(cur.shuffled_opts))
                          THEN /\ buttons' = buttons
                               /\ Store(cancel_udata(user_data),
                                        [sessions EXCEPT ![sid] = Unsent(s, cur)],
                                        Gone(cancel_jobs(user_data, jobs), j),
                                        hsession)
                          ELSE /\ buttons' = buttons \cup
                                               build_answer_keyboard(Len(cur.shuffled_opts), s.qid + 1)
                               /\ Store([user_data EXCEPT !.timer_job = Len(jobs) + 1],
                                        [sessions EXCEPT ![sid] = Present(s, cur)],
                                        run_once(Gone(cancel_jobs(user_data, jobs), j), s.qid + 1),
                                        hsession)

\* ------------------------------------------------------------- the updates
\* What the user can send: the buttons of the menus, which stay in the chat
\* (submenu| and startfile| take any file of blocks_cache, so also one no
\* menu lists),
\* the answer buttons of the questions presented so far, and answers no
\* button carries: an index beyond the letters, with the sequenceId of a
\* button or of a session's first question.
MenuKeys == {"b1", "b2", "zz"}
StartKeys == {"b1", "b2", "b3", "zz"}
SubFiles == {"block2_1_constitution.json", "block2_2_civil_service.json",
             "block2_3_mku.json", "extra.json"}
Modes == {"full", "final"}
ForgedIdx == {NLetters}
ForgedQid == {1}

CallbackData ==
  {Data(c, "", "", 0, 0) : c \in {"noop", "back", "quit", "global_final", "other"}}
    \cup {Data("menu", k, "", 0, 0) : k \in MenuKeys}
    \cup {Data("submenu", f, "", 0, 0) : f \in SubFiles}
    \cup {Data("start", k, m, 0, 0) : k \in StartKeys, m \in Modes}
    \cup {Data("startfile", f, m, 0, 0) : f \in SubFiles, m \in Modes}
    \cup buttons
    \cup {Data("ans", "", "", k, x) :
            k \in {b.qid : b \in buttons} \cup ForgedQid, x \in ForgedIdx}

\* The bot after main(): no session, no job, no update in flight.
Started ==
  /\ user_data = [session |-> None, timer_job |-> None]
  /\ sessions = <<>>
  /\ jobs = <<>>
  /\ hpc = "idle"
  /\ hmsg = "none"
  /\ hsession = None
  /\ budget = MaxEvents
  /\ buttons = {}

Init ==
  /\ Started
  /\ call = NoCall

\* A callback query arrives: on_callback runs up to `await query.answer()`.
\* It has read nothing yet, so which button the query is for is settled when
\* the handler resumes and reads query.data.
Update ==
  /\ hpc = "idle"
  /\ budget > 0
  /\ budget' = budget - 1
  /\ hpc' = "query_answer"
  /\ hmsg' = "none"
  /\ UNCHANGED <<user_data, sessions, jobs, hsession, buttons, call>>

\* show_main_menu, show_block_menu and show_subblock_menu all begin with
\* session_cancel_timer and user_data.pop("session") and end at one send.
show_menu(msg) ==
  /\ buttons' = buttons
  /\ hpc' = "last_send"
  /\ hmsg' = msg
  /\ Store(pop_session(cancel_udata(user_data)), sessions,
           cancel_jobs(user_data, jobs), hsession)

\* The /start command: cmd_start runs show_main_menu.
cmd_start ==
  /\ hpc = "idle"
  /\ budget > 0
  /\ budget' = budget - 1
  /\ show_menu("menu")

\* on_callback resumes after query.answer() and branches on query.data.
Dispatch(data, cmd) ==
  /\ hpc = "query_answer"
  /\ data.cmd = cmd
  /\ budget' = budget

\* A branch that only sends one notice and returns.
Notice(msg) ==
  /\ hpc' = "last_send"
  /\ hmsg' = msg
  /\ UNCHANGED <<user_data, sessions, jobs, hsession, buttons, call>>

OnNoop(data) ==
  /\ Dispatch(data, "noop")
  /\ hpc' = "idle"
  /\ hmsg' = "none"
  /\ UNCHANGED <<user_data, sessions, jobs, hsession, buttons, call>>

OnBack(data) ==
  /\ Dispatch(data, "back")
  /\ show_menu("menu")

\* show_block_menu; an unknown key falls through to show_main_menu.
OnMenu(data) ==
  /\ Dispatch(data, "menu")
  /\ show_menu("menu")

\* show_subblock_menu; an unknown file gets a notice instead of a menu.
OnSubmenu(data) ==
  /\ Dispatch(data, "submenu")
  /\ show_menu(IF data.key \in DOMAIN blocks_cache THEN "menu" ELSE "no_subblock_file")

\* quit: the "stopped" notice is awaited first.
OnQuit(data) ==
  /\ Dispatch(data, "quit")
  /\ hpc' = "quit_reply"
  /\ hmsg' = "stopped"
  /\ UNCHANGED <<user_data, sessions, jobs, hsession, buttons, call>>

\* ... then the session is popped, the timer cancelled, the main menu shown.
QuitResume ==
  /\ hpc = "quit_reply"
  /\ UNCHANGED budget
  /\ show_menu("menu")

\* start_session, then the "starting" notice is awaited.
StartWith(questions) ==
  /\ buttons' = buttons
  /\ hpc' = "start_reply"
  /\ hmsg' = "starting"
  /\ Store([user_data EXCEPT !.session = Len(sessions) + 1],
           Append(sessions, NewSession(questions)), jobs, hsession)

OnGlobalFinal(data) ==
  /\ Dispatch(data, "global_final")
  /\ \E pools \in global_final_questions : StartWith(pools)

OnStart(data) ==
  /\ Dispatch(data, "start")
  /\ \E r \in build_test_questions(data.mode, data.key, "") :
       IF r.questions = <<>>
         THEN Notice("no_questions")
         ELSE StartWith(r.questions)

OnStartfile(data) ==
  /\ Dispatch(data, "startfile")
  /\ IF data.key \notin DOMAIN blocks_cache
       THEN Notice("no_subblock")
       ELSE \E r \in build_test_questions(data.mode, "", data.key) :
              StartWith(r.questions)

\* ... then send_question
StartResume ==
  /\ hpc = "start_reply"
  /\ UNCHANGED budget
  /\ send_question(user_data, sessions, jobs)

\* The ans branch once the fence is passed, up to its await: the timer is
\* cancelled and the answer scored.  letters[idx] and letters[ci] raise
\* IndexError outside -26..25, which ends the handler where it stands: in
\* the "correct" branch after session["correct"] += 1.
AnswerScore(sid, qid, idx) ==
  LET s == sessions[sid]
      ci == CurCi(s)
      noted == [sessions EXCEPT ![sid] = Passed(@, <<"answer", qid, idx>>)]
      ud == cancel_udata(user_data)
      js == cancel_jobs(user_data, jobs)
  IN /\ buttons' = buttons
     /\ IF IsCorrect(idx, ci)
          THEN IF LetterRaises(ci)
            THEN /\ hpc' = "idle"
                 /\ hmsg' = "none"
                 /\ Store(ud, [noted EXCEPT ![sid] = Credited(@)], js, None)
            ELSE /\ hpc' = "ans_reply"
                 /\ hmsg' = "correct"
                 /\ Store(ud, [noted EXCEPT ![sid] = Credited(@)], js, sid)
          ELSE IF LetterRaises(idx) \/ LetterRaises(ci)
            THEN /\ hpc' = "idle"
                 /\ hmsg' = "none"
                 /\ Store(ud, noted, js, None)
            ELSE /\ hpc' = "ans_reply"
                 /\ hmsg' = "incorrect"
                 /\ Store(ud, noted, js, sid)

OnAns(data) ==
  /\ Dispatch(data, "ans")
  /\ IF user_data.session = None
       THEN Notice("inactive")
       ELSE IF ~Fence(sessions[user_data.session], data.qid)
         THEN Notice("stale")
         ELSE AnswerScore(user_data.session, data.qid, data.idx)

\* ... then session["i"] += 1 and send_question
AnsResume ==
  /\ hpc = "ans_reply"
  /\ UNCHANGED budget
  /\ send_question(user_data, Advanced(sessions, hsession), jobs)

OnOther(data) ==
  /\ Dispatch(data, "other")
  /\ Notice("unknown")

\* finish_session after its summary send: user_data.pop("session")
FinishResume ==
  /\ hpc = "finish_send"
  /\ UNCHANGED <<budget, buttons>>
  /\ hpc' = "idle"
  /\ hmsg' = "none"
  /\ Store(pop_session(user_data), sessions, jobs, hsession)

\* The handler returns after its last send (a menu, a notice, a question).
Return ==
  /\ hpc = "last_send"
  /\ hpc' = "idle"
  /\ hmsg' = "none"
  /\ UNCHANGED <<user_data, sessions, jobs, hsession, budget, buttons, call>>

\* ------------------------------------------------------- the timer callback
\* The job fires: timeout_question runs up to its first send.  user_data
\* holds the key "timer_job" from the first arming on, so udata is never
\* empty here.  The text of the send holds letters[ci]: where that raises
\* IndexError the timeout has passed the fence, nothing is sent and the
\* callback ends with the session as it was.
TimeoutFire(j) ==
  /\ jobs[j].state = "scheduled"
  /\ UNCHANGED <<hpc, hmsg, budget, buttons>>
  /\ IF user_data.session = None
       THEN Store(user_data, sessions, Gone(jobs, j), hsession)
       ELSE LET sid == user_data.session IN
            IF ~Fence(sessions[sid], jobs[j].qid)
              THEN Store(user_data, sessions, Gone(jobs, j), hsession)
            ELSE IF LetterRaises(CurCi(sessions[sid]))
              THEN Store(user_data,
                         [sessions EXCEPT ![sid] = Passed(@, <<"timeout", jobs[j].qid>>)],
                         Gone(jobs, j),
                         hsession)
              ELSE Store(user_data,
                         [sessions EXCEPT ![sid] = Passed(@, <<"timeout", jobs[j].qid>>)],
                         [jobs EXCEPT ![j].state = "timeout_send", ![j].session = sid],
                         hsession)

\* ... then session["i"] += 1 and the "next question" send
TimeoutAdvance(j) ==
  /\ jobs[j].state = "timeout_send"
  /\ UNCHANGED <<hpc, hmsg, budget, buttons>>
  /\ Store(user_data,
           Advanced(sessions, jobs[j].session),
           [jobs EXCEPT ![j].state = "next_send", ![j].session = None],
           hsession)

\* ... then send_question_direct
TimeoutSendNext(j) ==
  /\ jobs[j].state = "next_send"
  /\ send_question_direct(j)

\* send_question_direct after its summary send: udata.pop("session")
DirectFinishResume(j) ==
  /\ jobs[j].state = "summary_send"
  /\ UNCHANGED <<hpc, hmsg, budget, buttons>>
  /\ Store(pop_session(user_data), sessions, Gone(jobs, j), hsession)

Fire == \E j \in DOMAIN jobs : TimeoutFire(j)
Advance == \E j \in DOMAIN jobs : TimeoutAdvance(j)
SendNext == \E j \in DOMAIN jobs : TimeoutSendNext(j)
DirectFinish == \E j \in DOMAIN jobs : DirectFinishResume(j)

Noop == \E data \in CallbackData : OnNoop(data)
Back == \E data \in CallbackData : OnBack(data)
Menu == \E data \in CallbackData : OnMenu(data)
Submenu == \E data \in CallbackData : OnSubmenu(data)
Quit == \E data \in CallbackData : OnQuit(data)
GlobalFinal == \E data \in CallbackData : OnGlobalFinal(data)
Start == \E data \in CallbackData : OnStart(data)
Startfile == \E data \in CallbackData : OnStartfile(data)
Ans == \E data \in CallbackData : OnAns(data)
Other == \E data \in CallbackData : OnOther(data)

HandlerStep ==
  \/ Noop \/ Back \/ Menu \/ Submenu \/ Quit \/ QuitResume
  \/ GlobalFinal \/ Start \/ Startfile \/ StartResume
  \/ Ans \/ AnsResume \/ Other \/ FinishResume \/ Return

JobStep == Fire \/ Advance \/ SendNext \/ DirectFinish

Next == Update \/ cmd_start \/ HandlerStep \/ JobStep

Spec == Init /\ [][Next]_vars

\* ------------------------------------------- the selection on its own
\* pick_random and random.sample applied to a pool of distinct questions
\* 1..k, each as build_test_questions applies it: mode "final" is
\* pick_random(pool, n), mode "full" is random.sample(pool, len(pool)).
Pools == {[j \in 1..k |-> j] : k \in 0..MaxPool}
PickSizes == (1..MaxPick) \cup {FINAL_N}

Called(fn, pool, n) ==
  [fn |-> fn, pool |-> pool, n |-> n, state |-> "called", result |-> <<>>]

Returned(c, result) == [c EXCEPT !.state = "returned", !.result = result]

SelectInit ==
  /\ Started
  /\ call \in {Called("pick_random", pool, n) : pool \in Pools, n \in PickSizes}
              \cup {Called("random_sample", pool, Len(pool)) : pool \in Pools}

PickFinal ==
  /\ call.fn = "pick_random"
  /\ call.state = "called"
  /\ \E r \in pick_random(call.pool, call.n) : call' = Returned(call, r)
  /\ UNCHANGED <<user_data, sessions, jobs, hpc, hmsg, hsession, budget, buttons>>

SampleFull ==
  /\ call.fn = "random_sample"
  /\ call.state = "called"
  /\ \E r \in random_sample(call.pool, Len(call.pool)) : call' = Returned(call, r)
  /\ UNCHANGED <<user_data, sessions, jobs, hpc, hmsg, hsession, budget, buttons>>

SelectNext == PickFinal \/ SampleFull

SelectSpec == SelectInit /\ [][SelectNext]_vars

\* ---------------------------------------------------------------- claims
HasSession == user_data.session # None

\* The session in user_data, where there is one.
Session == sessions[user_data.session]

\* The events that passed the fence for the sequenceId the session has now.
PassedNow(s) == SelectSeq(s.passed, LAMBDA e : e[2] = s.qid)

\* Those of them that went on to session["i"] += 1.
Resolutions(s) ==
  SelectSeq(PassedNow(s),
            LAMBDA e : /\ ~LetterRaises(CurCi(s))
                       /\ (e[1] = "timeout" \/ e[3] = CurCi(s) \/ ~LetterRaises(e[3])))

\* A step that runs start_session puts a new dict into user_data; in every
\* other step from a session to a session the dict is the same one.
SameSession == HasSession /\ HasSession' /\ ~(hpc = "query_answer" /\ hpc' = "start_reply")

ScoreNotices == {"correct", "incorrect", "summary"}

Armed == {j \in DOMAIN jobs : jobs[j].state = "scheduled"}

\* C1: a presented question is resolved once: of the timeout and the answers
\* for the sequenceId on display at most one passes the fence, so position
\* never runs ahead of the number of questions presented.
C1_ResolvedOnce ==
  HasSession => /\ Len(Resolutions(Session)) <= 1
                /\ Session.i <= Len(Session.shown)

\* C2: an answer or a timeout whose sequenceId is not the session's changes
\* no field of the session and sends no correct, incorrect or summary notice.
C2_StaleAnswer ==
  \A data \in CallbackData :
    (HasSession /\ data.cmd = "ans" /\ data.qid # Session.qid /\ OnAns(data))
      => (sessions' = sessions /\ hmsg' \notin ScoreNotices)

C2_StaleTimeout ==
  \A j \in DOMAIN jobs :
    (HasSession /\ jobs[j].qid # Session.qid /\ TimeoutFire(j))
      => /\ sessions' = sessions
         /\ hmsg' = hmsg
         /\ Len(jobs') = Len(jobs) - 1

C2_StaleIgnored == [][C2_StaleAnswer /\ C2_StaleTimeout]_vars

\* C2 witness: a stale answer has been handled while a question is on display.
C2_Witness == HasSession /\ hmsg = "stale" /\ Session.qid >= 1

\* C3: correctCount <= position <= len(questions) in every state with a
\* session, the states where a handler waits at a send included.
C3_CountPositionLen ==
  HasSession => /\ Session.correct <= Session.i
                /\ Session.i <= Len(Session.questions)

\* C4: 0 <= correctCount <= len(questions) in every state with a session.
C4_CorrectBounded ==
  HasSession => /\ 0 <= Session.correct
                /\ Session.correct <= Len(Session.questions)

\* C5: sequenceId starts at 0 and never decreases; it changes only where
\* send_question or send_question_direct takes up the question at position,
\* by exactly 1, and a presentation carries the new value: the presentations
\* of a session carry growing sequenceIds, none twice, the last one at most
\* the session's.
C5_Numbered ==
  HasSession =>
    /\ Session.qid >= Len(Session.shown)
    /\ \A k \in DOMAIN Session.shown : Session.shown[k].qid \in k..Session.qid
    /\ \A a, b \in DOMAIN Session.shown :
         a < b => Session.shown[a].qid < Session.shown[b].qid
    /\ Session.current = <<>> => Session.qid = 0

C5_Step ==
  SameSession =>
    \/ /\ sessions'[1].qid = sessions[1].qid
       /\ sessions'[1].shown = sessions[1].shown
    \/ /\ sessions'[1].qid = sessions[1].qid + 1
       /\ hpc \in {"start_reply", "ans_reply"} \/ \E j \in DOMAIN jobs : jobs[j].state = "next_send"
       /\ \/ sessions'[1].shown = sessions[1].shown
          \/ /\ Len(sessions'[1].shown) = Len(sessions[1].shown) + 1
             /\ sessions'[1].shown[Len(sessions'[1].shown)].qid = sessions'[1].qid

C5_SequenceId == [](C5_Numbered) /\ [][C5_Step]_vars

\* C5 witness: the handler has just sent a session's second presentation.
C5_Witness == HasSession /\ Session.qid = 2 /\ hmsg = "question"

\* The timer fires and every send completes; nothing else is assumed.
FairSpec ==
  /\ Spec
  /\ WF_vars(HandlerStep)
  /\ WF_vars(Fire) /\ WF_vars(Advance) /\ WF_vars(SendNext) /\ WF_vars(DirectFinish)

\* A question is on display with its timer running, no update is being
\* handled and the user sends nothing more.
Awaiting ==
  /\ HasSession
  /\ hpc = "idle"
  /\ budget = 0
  /\ Session.current # <<>>
  /\ \E j \in Armed : jobs[j].qid = Session.qid

\* The score summary of the session in user_data has been sent.
Summarised == HasSession /\ Session.summaries # <<>>

\* C6: from a session awaiting an answer, with the timer firing and the sends
\* completing and no further update, the session's summary is sent (and the
\* session then removed): it ends without the user answering.
C6_Progress == Awaiting ~> Summarised

\* C7: a session of n >= 1 questions that was not cancelled or replaced has,
\* when its summary is sent, presented questions[0..n-1] each once in list
\* order, stands at position n and reports total = n.
C7_AllPresentedInOrder ==
  (Summarised /\ Len(Session.questions) >= 1) =>
     /\ Len(Session.shown) = Len(Session.questions)
     /\ \A k \in DOMAIN Session.shown : Session.shown[k].i = k - 1
     /\ Session.i = Len(Session.questions)
     /\ \A m \in DOMAIN Session.summaries :
          Session.summaries[m].total = Len(Session.questions)

\* C8: correctCount changes only by +1, only in the step of an answer that
\* carries the session's sequenceId and the index current.correctIndexInShuffle,
\* never in a timeout step, and at most once per presentation and per question.
C8_Credits ==
  HasSession =>
    /\ Session.correct = Len(Session.credits)
    /\ \A a, b \in DOMAIN Session.credits :
         a # b => /\ Session.credits[a].qid # Session.credits[b].qid
                  /\ Session.credits[a].i # Session.credits[b].i

C8_Step ==
  (SameSession /\ sessions'[1].correct # sessions[1].correct) =>
     /\ sessions'[1].correct = sessions[1].correct + 1
     /\ hpc = "query_answer"
     /\ sessions'[1].passed =
          Append(sessions[1].passed, <<"answer", sessions[1].qid, CurCi(sessions[1])>>)

C8_CorrectCount == [](C8_Credits) /\ [][C8_Step]_vars

\* C9: no start path creates a session from an empty question list.
C9_NoEmptySession == HasSession => Len(Session.questions) >= 1

\* C10: at most one timer is armed (scheduled, not fired, not removed).
C10_OneTimer == Cardinality(Armed) <= 1

\* C10 witness: a timer is armed while an earlier timer's callback is still
\* in progress.
C10_Witness ==
  /\ Armed # {}
  /\ \E j \in DOMAIN jobs : jobs[j].state \in {"timeout_send", "next_send", "summary_send"}

\* C11: whenever user_data holds no session (after finish_session, after
\* send_question_direct's finish, after quit), no timer is armed.
C11_NoTimerWithoutSession == ~HasSession => Armed = {}

\* C12: a session leaves user_data only on natural completion (position =
\* len(questions)) or on quit (a start replaces it by a new one); the menu
\* events back, menu|, submenu| and /start leave an active session in place.
C12_Step ==
  (HasSession /\ ~HasSession') =>
     \/ hpc = "quit_reply"
     \/ Session.i = Len(Session.questions)

C12_RemovedOnly == [][C12_Step]_vars

\* C13: an answer or a timeout whose sequenceId is not the session's sends no
\* message of any kind: the handler returns without a send.
C13_StaleAnswer ==
  \A data \in CallbackData :
    (HasSession /\ data.cmd = "ans" /\ data.qid # Session.qid /\ OnAns(data))
      => (hpc' = "idle" /\ hmsg' = "none")

C13_StaleTimeout ==
  \A j \in DOMAIN jobs :
    (HasSession /\ jobs[j].qid # Session.qid /\ TimeoutFire(j))
      => (hmsg' = hmsg /\ Len(jobs') = Len(jobs) - 1)

C13_StaleSilent == [][C13_StaleAnswer /\ C13_StaleTimeout]_vars

\* C14: an answer that passes the fence with an index outside
\* [0, len(options)) is scored as an incorrect answer: correctCount is
\* unchanged and the handler goes on, through the "incorrect" reply, to
\* position += 1 and the next presentation; it does not stop with the timer
\* cancelled and the question unresolved.
C14_Step ==
  \A data \in CallbackData :
    (/\ HasSession
     /\ data.cmd = "ans"
     /\ data.qid = Session.qid
     /\ (data.idx < 0 \/ data.idx >= Len(CurOpts(Session)))
     /\ OnAns(data))
      => /\ hpc' = "ans_reply"
         /\ hmsg' = "incorrect"
         /\ hsession' = 1
         /\ sessions'[1].correct = sessions[1].correct

C14_OutOfRangeIncorrect == [][C14_Step]_vars

\* C15: once quit is being handled (its "stopped" notice is the handler's
\* send), no question is presented and no summary is sent for the session,
\* also not by a timeout callback that was in progress when quit arrived;
\* when the quit branch has run, no session exists and no timer is armed;
\* and a session is only ever created by a start.
C15_Quitting ==
  (hpc = "quit_reply" /\ HasSession) =>
     /\ Session.summaries = <<>>
     /\ buttons' = buttons
     /\ (HasSession' => sessions'[1].summaries = <<>>)

C15_Quit ==
  (hpc = "quit_reply" /\ hpc' # "quit_reply") =>
     /\ ~HasSession'
     /\ Armed' = {}

C15_Created ==
  (~HasSession /\ HasSession') => (hpc = "query_answer" /\ hpc' = "start_reply")

C15_AfterQuit == [][C15_Quitting /\ C15_Quit /\ C15_Created]_vars

\* The timeout for sequenceId k has passed the fence of session s, whose
\* question k is still the one on display.
TimedOut(s, k) == \E n \in DOMAIN s.passed : s.passed[n] = <<"timeout", k>>

\* C16: a timeout carrying the session's sequenceId k counts as a wrong
\* answer: correctCount stays, position grows by 1, the callback's
\* presentation carries k + 1 (or the summary is sent), and an answer
\* carrying k that comes after the timeout changes nothing.
C16_Advance ==
  \A j \in DOMAIN jobs :
    (HasSession /\ jobs[j].state = "timeout_send"
       /\ jobs[j].session = user_data.session /\ TimeoutAdvance(j))
      => /\ sessions'[1].i = sessions[1].i + 1
         /\ sessions'[1].correct = sessions[1].correct

C16_Next ==
  \A j \in DOMAIN jobs :
    (HasSession /\ jobs[j].state = "next_send" /\ TimeoutSendNext(j))
      => \/ /\ sessions'[1].shown = Append(sessions[1].shown,
                                            [qid |-> jobs[j].qid + 1, i |-> sessions[1].i])
            /\ sessions[1].i < Len(sessions[1].questions)
         \/ /\ sessions'[1].summaries = Append(sessions[1].summaries, Summary(sessions[1]))
            /\ sessions[1].i = Len(sessions[1].questions)

C16_LaterAnswer ==
  \A data \in CallbackData :
    (HasSession /\ data.cmd = "ans" /\ TimedOut(Session, data.qid) /\ OnAns(data))
      => sessions' = sessions

C16_TimeoutAsWrong == [][C16_Advance /\ C16_Next /\ C16_LaterAnswer]_vars

Min(a, b) == IF a <= b THEN a ELSE b

\* C17: for a non-empty pool, mode "final" (pick_random with n, n = 20 in the
\* bot) selects min(n, |pool|) questions, all of the pool, no pool position
\* twice; mode "full" selects a permutation of the whole pool.
C17_Selection ==
  call.state = "returned" =>
    /\ (call.fn = "pick_random" /\ call.pool # <<>>) =>
          /\ Len(call.result) = Min(call.n, Len(call.pool))
          /\ \A k \in DOMAIN call.result : call.result[k] \in Range(call.pool)
          /\ \A a, b \in DOMAIN call.result : a # b => call.result[a] # call.result[b]
    /\ call.fn = "random_sample" =>
          /\ Len(call.result) = Len(call.pool)
          /\ Range(call.result) = Range(call.pool)

\* C17 witness: pick_random has returned FINAL_N questions short, the whole
\* pool of MaxPool questions in another order than the pool's.
C17_Witness ==
  /\ call.fn = "pick_random"
  /\ call.state = "returned"
  /\ call.n = FINAL_N
  /\ Len(call.result) = MaxPool
  /\ call.result # call.pool

\* The question the session's last presentation showed.
Presented(s) == At(s.questions, s.shown[Len(s.shown)].i)

\* session["current"] is that of the last presentation.
OnDisplay(s) == s.shown # <<>> /\ s.shown[Len(s.shown)].qid = s.qid

\* C18: after a presentation by either path, current.shuffled_opts is a
\* permutation of the presented question's options and the option at
\* current.correct_index has the text of options[correct_index], duplicate
\* option texts included.
C18_ShuffleCorrect ==
  (HasSession /\ OnDisplay(Session)) =>
     LET q == Presented(Session)
         n == Len(q.options)
     IN /\ Session.current # <<>>
        /\ \E order \in Orders(n, n) :
             CurOpts(Session) = [k \in 1..n |-> At(q.options, order[k])]
        /\ CurCi(Session) \in 0..(n - 1)
        /\ At(CurOpts(Session), CurCi(Session)) = At(q.options, q.correct_index)

\* C18 witness: the timeout path has presented the question with two equal
\* option texts, the correct one in the later place (list.index of the text,
\* as send_question looks it up, gives the earlier one).
C18_Witness ==
  /\ HasSession
  /\ OnDisplay(Session)
  /\ Presented(Session) = Q2
  /\ CurCi(Session) = 1

\* C19: an answer button issued for a question of an earlier session is never
\* applied to the session in user_data: pressing it neither changes
\* correctCount nor takes the handler to the reply after which position += 1,
\* whatever the later session's sequenceId is.  (The callback data is all the
\* handler sees of the button pressed.)
C19_Step ==
  \A data \in CallbackData :
    (HasSession /\ data.cmd = "ans" /\ data \in Session.earlier /\ OnAns(data))
      => /\ sessions'[1].correct = sessions[1].correct
         /\ hpc' # "ans_reply"

C19_CrossSessionFence == [][C19_Step]_vars

\* C20: send_question and send_question_direct, run from the same session
\* and timer state, allow the same results: for the question at position the
\* same set of (shuffled_opts, correct_index) pairs, and on exhaustion the
\* same timer cancellation (finish_session leaves no timer armed).
C20_SameShuffles ==
  (HasSession /\ Session.i < Len(Session.questions)) =>
     ShuffleByText(At(Session.questions, Session.i))
       = ShuffleByOrder(At(Session.questions, Session.i))

C20_SameExhaustion ==
  \A j \in DOMAIN jobs :
    (/\ HasSession
     /\ jobs[j].state = "next_send"
     /\ Session.i >= Len(Session.questions)
     /\ TimeoutSendNext(j))
      => Armed' = {}

C20_PathsEquivalent == [](C20_SameShuffles) /\ [][C20_SameExhaustion]_vars

\* C21: when an answer passes the fence for the question k on display while
\* the timer of k is still armed, the timer is off the queue when the handler
\* reaches its first await; and while an answer is the first event to have
\* passed the fence for k, no timeout passes it after that answer and no timer
\* carrying k is armed, although position and sequenceId move only after the
\* handler's reply.
C21_Step ==
  \A data \in CallbackData :
    (/\ HasSession
     /\ data.cmd = "ans"
     /\ data.qid = Session.qid
     /\ \E j \in Armed : jobs[j].qid = data.qid
     /\ OnAns(data))
      => \A j \in Armed' : jobs'[j].qid # data.qid

C21_Inv ==
  (HasSession /\ PassedNow(Session) # <<>> /\ PassedNow(Session)[1][1] = "answer") =>
     /\ \A n \in DOMAIN PassedNow(Session) : PassedNow(Session)[n][1] # "timeout"
     /\ \A j \in DOMAIN jobs :
          jobs[j].qid = Session.qid =>
            /\ jobs[j].state # "scheduled"
            /\ ~(jobs[j].state = "timeout_send" /\ jobs[j].session = user_data.session)

C21_AnswerFirst == [](C21_Inv) /\ [][C21_Step]_vars

\* C21 witness: an answer has passed the fence with the timer still armed and
\* the handler waits at its reply, before position += 1: the timer is gone
\* from the queue and no callback is in progress.
C21_Witness ==
  /\ HasSession
  /\ hpc = "ans_reply"
  /\ PassedNow(Session) # <<>>
  /\ PassedNow(Session)[1][1] = "answer"
  /\ Session.i = Len(Session.shown) - 1
  /\ jobs = <<>>

====
